---- MODULE Spec2Model ----
(***************************************************************************)
(* The data-loading, aggregation and ranking helpers of app/utils.py       *)
(* (solar-challenge-week1), as a state machine.                            *)
(*                                                                         *)
(* State: the data files on disk (two candidate locations per country),    *)
(* the two st.cache_data stores, a count of read_csv calls per file, and   *)
(* what the last call did (its arguments, return value, the st.error       *)
(* diagnostics it showed, whether an exception reached the caller).        *)
(***************************************************************************)
EXTENDS Integers, Sequences, FiniteSets, TLC

VARIABLES
    files,          \* files[loc][filename]: the file at that candidate location
    quicksort_ties, \* how this build's (unstable) quicksort orders equal keys
    cache_country,  \* st.cache_data store of load_country_data
    cache_all,      \* st.cache_data store of load_all_countries_data
    opens,          \* opens[loc][filename]: number of pd.read_csv calls on it
    call,           \* the last call: function, arguments, cache hit or miss
    ret,            \* what the last call returned
    errors,         \* the st.error diagnostics the last call showed
    raised,         \* TRUE iff the last call let an exception reach its caller
    df_combined     \* the table the caller holds (result of the last load)

vars == <<files, quicksort_ties, cache_country, cache_all, opens, call, ret,
          errors, raised, df_combined>>

(***************************************************************************)
(* Bounds of the model.                                                    *)
(***************************************************************************)
MaxListLen == 3     \* longest country_list passed to load_all_countries_data

(***************************************************************************)
(* Names, files, tables.                                                   *)
(***************************************************************************)
NoneVal == "None"

\* utils.py:14-18
filename_map ==
    [c \in {"Benin", "Sierra Leone", "Togo"} |->
        CASE c = "Benin" -> "benin_clean.csv"
          [] c = "Sierra Leone" -> "sierraleone_clean.csv"
          [] c = "Togo" -> "togo_clean.csv"]

Countries == DOMAIN filename_map
Filenames == {filename_map[c] : c \in Countries}

\* The names callers pass: the three known ones and an unknown one.
Names == Countries \cup {"Atlantis"}

\* The two candidate locations, in the order the loader builds them.
Locations == {"relative", "root"}

\* A missing value (float NaN), as pd.concat fills it in for a column that
\* one of the frames lacks.  Metric values of the model are >= 0.
NaN == 0 - 1

\* pd.DataFrame()
EmptyDataFrame == [kind |-> "DataFrame", columns |-> {}, rows |-> <<>>]

DataFrame(cols, rows) == [kind |-> "DataFrame", columns |-> cols, rows |-> rows]

\* DataFrame.empty: some axis has length 0.
Empty(df) == df.columns = {} \/ df.rows = <<>>

\* File states.
Absent == [kind |-> "absent"]
Unparsable == [kind |-> "unparsable"]
CsvFile(header, records) == [kind |-> "csv", header |-> header, records |-> records]

\* A CSV file with a Timestamp column and the given metric columns; record i
\* has Timestamp i and the i-th value of each metric.
Csv(metrics, values) ==
    CsvFile({"Timestamp"} \cup metrics,
            [i \in 1..Len(values) |->
                [c \in {"Timestamp"} \cup metrics |->
                    IF c = "Timestamp" THEN i ELSE values[i][c]]])

\* os.path.exists
path_exists(loc, filename) == files[loc][filename].kind # "absent"

(***************************************************************************)
(* load_country_data (utils.py:11-54).                                     *)
(***************************************************************************)

\* dict.get: the file name of a known country, None for any other name.
filename_get(country_name) ==
    IF country_name \in DOMAIN filename_map THEN filename_map[country_name]
    ELSE NoneVal

\* Variant: the working-directory candidate is tried first.
file_path_to_load_root_first(filename) ==
    IF path_exists("root", filename) THEN "root"
    ELSE IF path_exists("relative", filename) THEN "relative"
    ELSE NoneVal

\* Lines 35-39: the module-relative candidate if it exists, else the
\* working-directory candidate if it exists, else None.
file_path_to_load(filename) ==
    IF path_exists("relative", filename) THEN "relative"
    ELSE IF path_exists("root", filename) THEN "root"
    ELSE NoneVal

\* pd.read_csv(path, index_col='Timestamp', parse_dates=True): the table
\* indexed by the Timestamp column, or the exception it raises.
read_csv(file) ==
    IF file.kind = "absent" THEN [exc |-> "FileNotFoundError"]
    ELSE IF file.kind = "unparsable" THEN [exc |-> "ParserError"]
    ELSE IF "Timestamp" \notin file.header THEN [exc |-> "ValueError"]
    ELSE [exc |-> NoneVal,
          df |-> DataFrame(file.header \ {"Timestamp"},
                    [i \in DOMAIN file.records |->
                        [index |-> file.records[i]["Timestamp"],
                         cells |-> [c \in file.header \ {"Timestamp"} |->
                                        file.records[i][c]]]])]

\* df['Country'] = country_name
set_country(df, country_name) ==
    DataFrame(df.columns \cup {"Country"},
        [i \in DOMAIN df.rows |->
            [index |-> df.rows[i].index,
             cells |-> [c \in df.columns \cup {"Country"} |->
                           IF c = "Country" THEN country_name
                           ELSE df.rows[i].cells[c]]]])

\* What a function body produced: its return value, the st.error messages it
\* showed, whether it raised, and the files it handed to read_csv.
Outcome(value, errs, exc, opened) ==
    [value |-> value, errors |-> errs, raised |-> exc, opened |-> opened]

NoneRet == [kind |-> "None"]

\* Variant: only FileNotFoundError is caught, any other exception escapes.
handle_read_uncaught(country_name, filename, path, r) ==
    IF r.exc = NoneVal
    THEN Outcome(set_country(r.df, country_name), <<>>, FALSE,
                 {<<path, filename>>})
    ELSE IF r.exc = "FileNotFoundError"
    THEN Outcome(EmptyDataFrame,
                 <<[msg |-> "Error: Cleaned data file not found",
                    about |-> filename]>>, FALSE, {<<path, filename>>})
    ELSE Outcome(NoneRet, <<>>, TRUE, {<<path, filename>>})

\* Variant: a first candidate that fails to parse is retried at the second.
handle_read_retry(country_name, filename, path, r) ==
    IF r.exc = NoneVal
    THEN Outcome(set_country(r.df, country_name), <<>>, FALSE,
                 {<<path, filename>>})
    ELSE IF path = "relative" /\ read_csv(files["root"][filename]).exc = NoneVal
    THEN Outcome(set_country(read_csv(files["root"][filename]).df, country_name),
                 <<>>, FALSE, {<<path, filename>>, <<"root", filename>>})
    ELSE Outcome(EmptyDataFrame,
                 <<[msg |-> "Error loading data for", about |-> country_name]>>,
                 FALSE, {<<path, filename>>})

\* Lines 42-51: the try/except around the read, r what pd.read_csv did.
handle_read(country_name, filename, path, r) ==
    IF r.exc = NoneVal
    THEN Outcome(set_country(r.df, country_name), <<>>, FALSE,
                 {<<path, filename>>})
    ELSE IF r.exc = "FileNotFoundError"
    THEN Outcome(EmptyDataFrame,
                 <<[msg |-> "Error: Cleaned data file not found",
                    about |-> filename]>>, FALSE, {<<path, filename>>})
    ELSE Outcome(EmptyDataFrame,
                 <<[msg |-> "Error loading data for", about |-> country_name]>>,
                 FALSE, {<<path, filename>>})

\* Lines 41-51: the read of the chosen path.
try_read_csv(country_name, filename, path) ==
    handle_read(country_name, filename, path, read_csv(files[path][filename]))

\* Lines 12-54, the undecorated body.
load_country_data_body(country_name) ==
    LET filename == filename_get(country_name)
    IN  IF filename = NoneVal
        THEN Outcome(EmptyDataFrame, <<>>, FALSE, {})
        ELSE LET path == file_path_to_load(filename)
             IN  IF path # NoneVal
                 THEN try_read_csv(country_name, filename, path)
                 ELSE Outcome(EmptyDataFrame,
                              <<[msg |-> "Could not determine path for data file",
                                 about |-> filename]>>, FALSE, {})

\* Variant: no memoization, every call runs the body.
cache_lookup_miss(cache, key) == {}

\* st.cache_data: the entries stored under a key (at most one).
cache_lookup(cache, key) == {e \in cache : e.key = key}

\* st.cache_data: a value that was returned is stored with the messages to
\* replay; a call that raised stores nothing.
cache_store(cache, key, out) ==
    IF out.raised THEN cache
    ELSE cache \cup {[key |-> key, value |-> out.value, errors |-> out.errors]}

count_opens(op, opened) ==
    [l \in Locations |-> [f \in Filenames |->
        op[l][f] + (IF <<l, f>> \in opened THEN 1 ELSE 0)]]

\* st.cache_data on a hit: the stored value, the stored messages replayed.
cached_country(cache, op, e) ==
    [value |-> e.value, errors |-> e.errors, raised |-> FALSE,
     hit |-> TRUE, cache |-> cache, opens |-> op]

\* st.cache_data on a miss: the body has run with outcome out.
computed_country(cache, op, country_name, out) ==
    [value |-> IF out.raised THEN NoneRet ELSE out.value,
     errors |-> out.errors, raised |-> out.raised, hit |-> FALSE,
     cache |-> cache_store(cache, country_name, out),
     opens |-> count_opens(op, out.opened)]

\* Lines 11-12: load_country_data as callers see it, from the state (cache,
\* op) of the store and of the open counts to the result and the new state.
load_country_data(cache, op, country_name) ==
    IF cache_lookup(cache, country_name) # {}
    THEN cached_country(cache, op,
            CHOOSE e \in cache_lookup(cache, country_name) : TRUE)
    ELSE computed_country(cache, op, country_name,
            load_country_data_body(country_name))

Call(fn, name, list, metric, hit) ==
    [fn |-> fn, country_name |-> name, country_list |-> list, metric |-> metric,
     hit |-> hit]

\* The caller gets the result r of load_country_data and keeps the table.
ReturnCountry(country_name, r) ==
    /\ cache_country' = r.cache
    /\ opens' = r.opens
    /\ call' = Call("load_country_data", country_name, <<>>, NoneVal, r.hit)
    /\ ret' = r.value
    /\ errors' = r.errors
    /\ raised' = r.raised
    /\ df_combined' = IF r.raised THEN df_combined ELSE r.value
    /\ UNCHANGED <<files, quicksort_ties, cache_all>>

\* A caller runs load_country_data(country_name).
LoadCountry(country_name) ==
    /\ country_name \in Names
    /\ ReturnCountry(country_name,
                     load_country_data(cache_country, opens, country_name))

(***************************************************************************)
(* load_all_countries_data (utils.py:57-69).                               *)
(***************************************************************************)

\* The default value of country_list (line 58).
default_country_list == <<"Benin", "Sierra Leone", "Togo">>

\* Variant: a non-empty table is put in front of the earlier ones.
prepend_if_not_empty(all_dfs, df) ==
    IF ~Empty(df) THEN <<df>> \o all_dfs ELSE all_dfs

\* Lines 63-64: a non-empty table is appended, an empty one is skipped.
append_if_not_empty(all_dfs, df) ==
    IF ~Empty(df) THEN Append(all_dfs, df) ELSE all_dfs

\* Lines 61-64: the loop from position i on.  Every iteration goes through
\* the cached load_country_data, so it reads and updates that store.
RECURSIVE load_loop(_, _, _, _, _, _)
RECURSIVE load_loop_step(_, _, _, _, _)

load_loop(country_list, i, cache, op, all_dfs, errs) ==
    IF i > Len(country_list)
    THEN [all_dfs |-> all_dfs, errors |-> errs, raised |-> FALSE,
          cache |-> cache, opens |-> op]
    ELSE load_loop_step(country_list, i, all_dfs, errs,
                        load_country_data(cache, op, country_list[i]))

\* Lines 62-64: iteration i, with r what load_country_data gave.
load_loop_step(country_list, i, all_dfs, errs, r) ==
    IF r.raised
    THEN [all_dfs |-> all_dfs, errors |-> errs \o r.errors,
          raised |-> TRUE, cache |-> r.cache, opens |-> r.opens]
    ELSE load_loop(country_list, i + 1, r.cache, r.opens,
                   append_if_not_empty(all_dfs, r.value), errs \o r.errors)

\* A frame's rows over the columns cols, NaN where the frame has no such column.
reindex_rows(df, cols) ==
    [i \in DOMAIN df.rows |->
        [index |-> df.rows[i].index,
         cells |-> [c \in cols |->
                       IF c \in df.columns THEN df.rows[i].cells[c] ELSE NaN]]]

RECURSIVE concat_rows(_, _)
concat_rows(dfs, cols) ==
    IF dfs = <<>> THEN <<>>
    ELSE reindex_rows(Head(dfs), cols) \o concat_rows(Tail(dfs), cols)

\* pd.concat(dfs, ignore_index=False): the rows of the frames one after the
\* other, each with its own index value, over the union of the columns.
concat(dfs) ==
    LET cols == UNION {dfs[i].columns : i \in DOMAIN dfs}
    IN  DataFrame(cols, concat_rows(dfs, cols))

\* Lines 66-69: what is returned once the loop has ended in state l.
combined(l) ==
    [value |-> IF l.raised THEN NoneRet
               ELSE IF l.all_dfs = <<>> THEN EmptyDataFrame
               ELSE concat(l.all_dfs),
     errors |-> l.errors, raised |-> l.raised,
     cache |-> l.cache, opens |-> l.opens]

\* Lines 60-69, the undecorated body, from the state of the country store.
load_all_countries_data_body(cache, op, country_list) ==
    combined(load_loop(country_list, 1, cache, op, <<>>, <<>>))

\* st.cache_data on a hit.
cached_all(cache_a, cache_c, op, e) ==
    [value |-> e.value, errors |-> e.errors, raised |-> FALSE,
     hit |-> TRUE, cache_all |-> cache_a, cache_country |-> cache_c,
     opens |-> op]

\* st.cache_data on a miss: the body has run with outcome out.
computed_all(cache_a, country_list, out) ==
    [value |-> out.value, errors |-> out.errors,
     raised |-> out.raised, hit |-> FALSE,
     cache_all |-> cache_store(cache_a, country_list, out),
     cache_country |-> out.cache, opens |-> out.opens]

\* Lines 57-58: load_all_countries_data as callers see it.
load_all_countries_data(cache_a, cache_c, op, country_list) ==
    IF cache_lookup(cache_a, country_list) # {}
    THEN cached_all(cache_a, cache_c, op,
            CHOOSE e \in cache_lookup(cache_a, country_list) : TRUE)
    ELSE computed_all(cache_a, country_list,
            load_all_countries_data_body(cache_c, op, country_list))

\* The lists callers pass.
EntityLists == UNION {[1..n -> Names] : n \in 0..MaxListLen}

\* The caller gets the result r of load_all_countries_data and keeps the table.
ReturnAll(country_list, r) ==
    /\ cache_all' = r.cache_all
    /\ cache_country' = r.cache_country
    /\ opens' = r.opens
    /\ call' = Call("load_all_countries_data", NoneVal, country_list,
                    NoneVal, r.hit)
    /\ ret' = r.value
    /\ errors' = r.errors
    /\ raised' = r.raised
    /\ df_combined' = IF r.raised THEN df_combined ELSE r.value
    /\ UNCHANGED <<files, quicksort_ties>>

\* A caller runs load_all_countries_data(country_list).  As in main.py, whose
\* only call is the one of line 18, a process passes the same list every time.
LoadAll(country_list) ==
    /\ \A e \in cache_all : e.key = country_list
    /\ ReturnAll(country_list,
                 load_all_countries_data(cache_all, cache_country, opens,
                                         country_list))

(***************************************************************************)
(* create_comparison_boxplot (utils.py:72-79).                             *)
(***************************************************************************)

\* The distinct Country values of the rows, in order of first appearance.
RECURSIVE unique_countries(_)
unique_countries(rows) ==
    IF rows = <<>> THEN <<>>
    ELSE LET front == unique_countries(SubSeq(rows, 1, Len(rows) - 1))
             c == rows[Len(rows)].cells["Country"]
         IN  IF \E k \in DOMAIN front : front[k] = c THEN front
             ELSE Append(front, c)

\* Variant: the values come out in reverse row order.
RECURSIVE column_of_country_reversed(_, _, _)
column_of_country_reversed(rows, c, col) ==
    IF rows = <<>> THEN <<>>
    ELSE IF Head(rows).cells["Country"] = c
         THEN column_of_country_reversed(Tail(rows), c, col)
                 \o <<Head(rows).cells[col]>>
         ELSE column_of_country_reversed(Tail(rows), c, col)

\* The values of column col in the rows whose Country is c, in row order.
RECURSIVE column_of_country(_, _, _)
column_of_country(rows, c, col) ==
    IF rows = <<>> THEN <<>>
    ELSE IF Head(rows).cells["Country"] = c
         THEN <<Head(rows).cells[col]>> \o column_of_country(Tail(rows), c, col)
         ELSE column_of_country(Tail(rows), c, col)

\* px.box(df, x='Country', y=metric, color='Country', ...): one box trace
\* per Country value, in order of first appearance, each with the x and y
\* values of that country's rows.
px_box(df, metric, title) ==
    LET names == unique_countries(df.rows)
    IN  [kind |-> "Figure", title |-> title, title_x |-> "unset",
         data |-> [k \in DOMAIN names |->
                     [name |-> names[k],
                      x |-> column_of_country(df.rows, names[k], "Country"),
                      y |-> column_of_country(df.rows, names[k], metric)]]]

\* Line 78: fig.update_layout(title_x=0.5)
update_layout_title_x(fig) == [fig EXCEPT !.title_x = "0.5"]

create_comparison_boxplot(df, metric, title) ==
    IF Empty(df) \/ metric \notin df.columns THEN NoneRet
    ELSE update_layout_title_x(px_box(df, metric, title))

\* The metrics the caller offers (a subset of main.py:45).
Metrics == {"GHI", "DNI"}

\* A caller that has loaded a table (main.py:18 comes first) asks for the box
\* plot of a metric of it.
Boxplot(metric) ==
    /\ call.fn # "none"
    /\ call' = Call("create_comparison_boxplot", NoneVal, <<>>, metric, FALSE)
    /\ ret' = create_comparison_boxplot(df_combined, metric, metric)
    /\ errors' = <<>>
    /\ raised' = FALSE
    /\ UNCHANGED <<files, quicksort_ties, cache_country, cache_all, opens,
                   df_combined>>

(***************************************************************************)
(* create_ghi_ranking_table (utils.py:81-94).                              *)
(***************************************************************************)

\* Variant: the threshold itself passes the filter (>= 50).
daytime_rows_inclusive(df) ==
    SelectSeq(df.rows, LAMBDA r : r.cells["GHI"] # NaN /\ r.cells["GHI"] >= 50)

\* Line 87: df[df['GHI'] > 50]; a comparison with NaN is False.
daytime_rows(df) ==
    SelectSeq(df.rows, LAMBDA r : r.cells["GHI"] # NaN /\ r.cells["GHI"] > 50)

\* Variant: nothing is said when no row passes the filter.
no_daytime_message_dropped == EmptyDataFrame

\* Line 89: the one-row table with the "no data" message.
no_daytime_message ==
    DataFrame({"Message"},
        <<[index |-> 0,
           cells |-> [c \in {"Message"} |->
              "No daytime GHI data (GHI > 50 W/m^2) available for ranking."]]>>)

RECURSIVE Gcd(_, _)
Gcd(a, b) == IF b = 0 THEN a ELSE Gcd(b, a % b)

RECURSIVE Sum(_)
Sum(seq) == IF seq = <<>> THEN 0 ELSE Head(seq) + Sum(Tail(seq))

\* The arithmetic mean of a non-empty sequence, as a fraction in lowest terms.
mean(seq) ==
    LET g == Gcd(Sum(seq), Len(seq))
    IN  [num |-> Sum(seq) \div g, den |-> Len(seq) \div g]

Less(a, b) == a.num * b.den < b.num * a.den

\* The group keys in the order groupby (sort=True) gives them: sorted.
sorted_keys == <<"Benin", "Sierra Leone", "Togo">>

\* Variant: groupby(sort=False), keys in order of first appearance.
group_keys_unsorted(rows) == unique_countries(rows)

group_keys(rows) ==
    SelectSeq(sorted_keys,
              LAMBDA c : \E i \in DOMAIN rows : rows[i].cells["Country"] = c)

\* groupby('Country')['GHI'].mean(): one entry per key, in key order.
groupby_mean(rows) ==
    LET keys == group_keys(rows)
    IN  [k \in DOMAIN keys |->
            [Country |-> keys[k],
             GHI |-> mean(column_of_country(rows, keys[k], "GHI"))]]

\* sort_values(ascending=False) with the default kind, quicksort, which is
\* not stable: entries in descending order of value, equal values in the
\* order the build's sort leaves them, ties[position].
sort_values_descending(series, ties) ==
    LET n == Len(series)
        before(x, y) == \/ Less(series[y].GHI, series[x].GHI)
                        \/ /\ series[x].GHI = series[y].GHI
                           /\ ties[x] < ties[y]
        order == CHOOSE s \in [1..n -> 1..n] :
                    \A i, j \in 1..n : i < j => before(s[i], s[j])
    IN  [i \in 1..n |-> series[order[i]]]

has_ties(series) ==
    \E i, j \in DOMAIN series : i # j /\ series[i].GHI = series[j].GHI

\* reset_index(): the keys become a column, the index is 0, 1, ...
reset_index(series) ==
    DataFrame({"Country", "GHI"},
        [i \in DOMAIN series |->
            [index |-> i - 1,
             cells |-> [c \in {"Country", "GHI"} |->
                          IF c = "Country" THEN series[i].Country
                          ELSE series[i].GHI]]])

average_column == "Average Daytime GHI (W/m^2)"

\* Line 92: rename(columns={'GHI': ...})
rename_ghi(df) ==
    DataFrame({"Country", average_column},
        [i \in DOMAIN df.rows |->
            [index |-> df.rows[i].index,
             cells |-> [c \in {"Country", average_column} |->
                          IF c = "Country" THEN df.rows[i].cells["Country"]
                          ELSE df.rows[i].cells["GHI"]]]])

\* Line 93: avg_ghi.index = avg_ghi.index + 1
index_plus_one(df) ==
    DataFrame(df.columns,
        [i \in DOMAIN df.rows |-> [df.rows[i] EXCEPT !.index = @ + 1]])

\* Line 83: the guard of the early return.
nothing_to_rank(df) == Empty(df) \/ "GHI" \notin df.columns

\* Lines 87-94.  df['GHI'] raises KeyError on a table without that column.
rank_daytime(df, ties) ==
    IF "GHI" \notin df.columns THEN Outcome(NoneRet, <<>>, TRUE, {})
    ELSE LET df_daytime == daytime_rows(df)
         IN  IF df_daytime = <<>>
             THEN Outcome(no_daytime_message, <<>>, FALSE, {})
             ELSE Outcome(index_plus_one(rename_ghi(reset_index(
                     sort_values_descending(groupby_mean(df_daytime), ties)))),
                     <<>>, FALSE, {})

\* Variant: the early return of line 83-84 is missing.
create_ghi_ranking_table_unguarded(df, ties) == rank_daytime(df, ties)

create_ghi_ranking_table(df, ties) ==
    IF nothing_to_rank(df) THEN Outcome(EmptyDataFrame, <<>>, FALSE, {})
    ELSE rank_daytime(df, ties)

Permutations3 ==
    {p \in [1..3 -> 1..3] : \A i, j \in 1..3 : p[i] = p[j] => i = j}

\* The build's tie order is not known until a sort shows it.
Unobserved == <<>>

\* The tie order of a sort that leaves equal keys where they were.
in_place == [i \in 1..3 |-> i]

\* The sort of the ranking has equal keys to order.
sorts_ties(df) ==
    /\ ~nothing_to_rank(df)
    /\ daytime_rows(df) # <<>>
    /\ has_ties(groupby_mean(daytime_rows(df)))

\* The caller gets the result r of create_ghi_ranking_table; seen is what is
\* known of the build's tie order afterwards.
ReturnRanking(r, seen) ==
    /\ ret' = r.value
    /\ raised' = r.raised
    /\ quicksort_ties' = seen
    /\ call' = Call("create_ghi_ranking_table", NoneVal, <<>>, NoneVal, FALSE)
    /\ errors' = <<>>
    /\ UNCHANGED <<files, cache_country, cache_all, opens, df_combined>>

\* A caller that has loaded a table (main.py:18 comes first) asks for its
\* ranking.  The order this build's sort gives to equal keys is fixed, and
\* seen at the first sort that has equal keys.
Rank ==
    /\ call.fn # "none"
    /\ IF sorts_ties(df_combined)
       THEN \E ties \in Permutations3 :
               /\ quicksort_ties \in {Unobserved, ties}
               /\ ReturnRanking(create_ghi_ranking_table(df_combined, ties), ties)
       ELSE ReturnRanking(create_ghi_ranking_table(df_combined, in_place),
                          quicksort_ties)

(***************************************************************************)
(* Initial states.                                                         *)
(***************************************************************************)
InitProcess ==
    /\ quicksort_ties = Unobserved
    /\ cache_country = {}
    /\ cache_all = {}
    /\ opens = [l \in Locations |-> [f \in Filenames |-> 0]]
    /\ call = Call("none", NoneVal, <<>>, NoneVal, FALSE)
    /\ ret = NoneRet
    /\ errors = <<>>
    /\ raised = FALSE
    /\ df_combined = EmptyDataFrame

FilesOf(rel, root) == [l \in Locations |-> IF l = "relative" THEN rel ELSE root]

\* Loader: every combination of absent, unparsable and valid files at the
\* two locations (and a file without a Timestamp column at the first); the
\* valid files of the two locations differ, so the one read is visible.
LoaderFiles(loc) ==
    IF loc = "relative"
    THEN {Absent, Unparsable, CsvFile({"GHI"}, <<[GHI |-> 60]>>),
          Csv({"GHI"}, <<[GHI |-> 60]>>)}
    ELSE {Absent, Unparsable, Csv({"GHI"}, <<[GHI |-> 80]>>)}

InitLoader ==
    /\ \E rel \in [Filenames -> LoaderFiles("relative")],
          root \in [Filenames -> LoaderFiles("root")] :
          files = FilesOf(rel, root)
    /\ InitProcess

NextLoader == \E country_name \in Names : LoadCountry(country_name)

SpecLoader == InitLoader /\ [][NextLoader]_vars

\* Cache: the files of the first location only, absent, unparsable or valid.
InitCache ==
    /\ \E rel \in [Filenames -> {Absent, Unparsable, Csv({"GHI"}, <<[GHI |-> 60]>>)}] :
          files = FilesOf(rel, [f \in Filenames |-> Absent])
    /\ InitProcess

NextCache ==
    \/ \E country_name \in Names : LoadCountry(country_name)
    \/ \E country_list \in EntityLists : LoadAll(country_list)

SpecCache == InitCache /\ [][NextCache]_vars

\* Ranking: files at the first location only.  Every country's file is absent,
\* a table of GHI and DNI with mean daytime GHI 70, a table with no GHI above
\* 50, or a table of GHI 90 without DNI; Benin's may also have a header and no
\* record, Sierra Leone's no GHI column, Togo's the single GHI 70 without DNI.
RankFiles(country_name) ==
    { Absent,
      Csv({"GHI", "DNI"}, <<[GHI |-> 10, DNI |-> 5], [GHI |-> 60, DNI |-> 7],
                            [GHI |-> 80, DNI |-> 9]>>),
      Csv({"GHI"}, <<[GHI |-> 10], [GHI |-> 50]>>),
      Csv({"GHI"}, <<[GHI |-> 90]>>) }
    \cup (CASE country_name = "Benin" -> {Csv({"GHI", "DNI"}, <<>>)}
            [] country_name = "Sierra Leone" -> {Csv({"DNI"}, <<[DNI |-> 5]>>)}
            [] OTHER -> {Csv({"GHI"}, <<[GHI |-> 70]>>)})

InitRank ==
    /\ \E benin \in RankFiles("Benin"),
          sierra_leone \in RankFiles("Sierra Leone"),
          togo \in RankFiles("Togo") :
          files = FilesOf([f \in Filenames |->
                              CASE f = filename_map["Benin"] -> benin
                                [] f = filename_map["Sierra Leone"] -> sierra_leone
                                [] OTHER -> togo],
                          [f \in Filenames |-> Absent])
    /\ InitProcess

NextRank ==
    \/ \E country_list \in EntityLists : LoadAll(country_list)
    \/ Rank
    \/ \E metric \in Metrics : Boxplot(metric)

SpecRank == InitRank /\ [][NextRank]_vars

(***************************************************************************)
(* Properties.                                                             *)
(***************************************************************************)
IsCall(fn) == call.fn = fn

\* The file of a known country at a location.
FileAt(loc, country_name) == files[loc][filename_map[country_name]]

Parses(file) == file.kind = "csv" /\ "Timestamp" \in file.header

\* df holds every record of the file, in file order, each with its own
\* Timestamp and values and tagged with the country.
FullyLoaded(df, file, country_name) ==
    /\ df.kind = "DataFrame"
    /\ Parses(file)
    /\ df.columns = (file.header \ {"Timestamp"}) \cup {"Country"}
    /\ Len(df.rows) = Len(file.records)
    /\ \A i \in DOMAIN df.rows :
          /\ df.rows[i].index = file.records[i]["Timestamp"]
          /\ df.rows[i].cells["Country"] = country_name
          /\ \A c \in file.header \ {"Timestamp"} :
                df.rows[i].cells[c] = file.records[i][c]

OpenCount(op, filename) == op["relative"][filename] + op["root"][filename]

\* C1: the result for a key is computed at most once.  No file is ever
\* opened more than once; an entry of either store is never replaced; a call
\* whose key is already stored returns the stored table and opens no file.
C1_ComputedAtMostOnce ==
    [][ /\ \A f \in Filenames : OpenCount(opens', f) <= 1
        /\ cache_country \subseteq cache_country'
        /\ cache_all \subseteq cache_all'
        /\ \A e1, e2 \in cache_country' : e1.key = e2.key => e1 = e2
        /\ \A e1, e2 \in cache_all' : e1.key = e2.key => e1 = e2
        /\ \A e \in cache_country :
              (call'.fn = "load_country_data" /\ call'.country_name = e.key)
                 => (ret' = e.value /\ opens' = opens /\ call'.hit)
        /\ \A e \in cache_all :
              (call'.fn = "load_all_countries_data" /\ call'.country_list = e.key)
                 => (ret' = e.value /\ opens' = opens /\ call'.hit
                     /\ cache_country' = cache_country)
      ]_vars

\* C1 witness: a second load("Benin") served from the store, after the
\* first one opened the file.
C1_Witness ==
    /\ IsCall("load_country_data") /\ call.country_name = "Benin" /\ call.hit
    /\ opens["relative"]["benin_clean.csv"] = 1
    /\ ~Empty(ret)

\* C2: load_country_data never lets an exception reach its caller.  It
\* returns the fully loaded table of one of the candidate files or the empty
\* table; an unknown name gives the empty table; a chosen file that does not
\* parse gives the empty table and a diagnostic.
C2_NeverRaises ==
    IsCall("load_country_data") =>
        LET n == call.country_name
        IN  /\ ~raised
            /\ ret.kind = "DataFrame"
            /\ n \notin Countries => ret = EmptyDataFrame
            /\ n \in Countries =>
                  /\ \/ ret = EmptyDataFrame
                     \/ \E loc \in Locations : FullyLoaded(ret, FileAt(loc, n), n)
                  /\ \A loc \in Locations :
                        ( /\ FileAt(loc, n).kind # "absent"
                          /\ loc = "root" => FileAt("relative", n).kind = "absent"
                          /\ ~Parses(FileAt(loc, n)) )
                        => (ret = EmptyDataFrame /\ errors # <<>>)

\* C2 witness: a load whose chosen file is there but does not parse.
C2_Witness ==
    /\ IsCall("load_country_data") /\ call.country_name = "Togo" /\ ~call.hit
    /\ FileAt("relative", "Togo").kind = "unparsable"
    /\ ret = EmptyDataFrame /\ errors # <<>> /\ ~raised

\* C3: for a known country the module-relative candidate is tried first and
\* the working-directory candidate second.  The file read is the first that
\* exists; with neither, the result is the empty table and a load error.
C3_FirstExistingPath ==
    /\ \A f \in Filenames :
          opens["root"][f] > 0 => files["relative"][f].kind = "absent"
    /\ (IsCall("load_country_data") /\ call.country_name \in Countries) =>
          LET n == call.country_name
              f == filename_map[n]
              rel == FileAt("relative", n)
              root == FileAt("root", n)
          IN  /\ rel.kind # "absent" =>
                    /\ opens["relative"][f] = 1 /\ opens["root"][f] = 0
                    /\ Parses(rel) => FullyLoaded(ret, rel, n)
              /\ (rel.kind = "absent" /\ root.kind # "absent") =>
                    /\ opens["relative"][f] = 0 /\ opens["root"][f] = 1
                    /\ Parses(root) => FullyLoaded(ret, root, n)
              /\ (rel.kind = "absent" /\ root.kind = "absent") =>
                    /\ opens["relative"][f] = 0 /\ opens["root"][f] = 0
                    /\ ret = EmptyDataFrame
                    /\ errors = <<[msg |-> "Could not determine path for data file",
                                   about |-> f]>>

\* C3 witness: the first candidate is absent and the second one is read.
C3_Witness ==
    /\ IsCall("load_country_data") /\ call.country_name = "Benin"
    /\ FileAt("relative", "Benin").kind = "absent"
    /\ opens["root"]["benin_clean.csv"] = 1
    /\ FullyLoaded(ret, FileAt("root", "Benin"), "Benin")

\* C10: the fallback is decided by existence alone.  When the module-relative
\* file exists but does not parse, the result is the empty table with a
\* diagnostic and the working-directory file is never read, valid or not.
C10_NoFallbackOnParseFailure ==
    \A n \in Countries :
        (FileAt("relative", n).kind # "absent" /\ ~Parses(FileAt("relative", n)))
        => /\ opens["root"][filename_map[n]] = 0
           /\ (IsCall("load_country_data") /\ call.country_name = n) =>
                 /\ ret = EmptyDataFrame
                 /\ errors = <<[msg |-> "Error loading data for", about |-> n]>>
                 /\ opens["relative"][filename_map[n]] = 1

\* C10 witness: an unparsable first candidate next to a valid second one.
C10_Witness ==
    /\ IsCall("load_country_data") /\ call.country_name = "Sierra Leone"
    /\ FileAt("relative", "Sierra Leone").kind = "unparsable"
    /\ Parses(FileAt("root", "Sierra Leone"))
    /\ ret = EmptyDataFrame /\ errors # <<>>

\* The table load_country_data returned for a name (the stored one).
LoadOf(country_name) ==
    (CHOOSE e \in cache_country : e.key = country_name).value

RECURSIVE RowsInListOrder(_)
RowsInListOrder(country_list) ==
    IF country_list = <<>> THEN <<>>
    ELSE LoadOf(Head(country_list)).rows \o RowsInListOrder(Tail(country_list))

\* The row out is the row in: same timestamp, same entity tag, same values.
RowKept(out, in) ==
    /\ out.index = in.index
    /\ \A c \in DOMAIN in.cells : out.cells[c] = in.cells[c]

\* C4: load_all_countries_data(L) is the concatenation, in list order, of
\* the non-empty tables load_country_data(e), e in L.  An empty or failed
\* load adds no row and aborts nothing, every row keeps its entity tag and
\* timestamp, an entity's rows stay in file order, and the result is empty
\* exactly when every load is.  With three loads that are not empty,
\* load_all([A, B]) followed by C's load is load_all([A, B, C]).
C4_ConcatenationInListOrder ==
    IsCall("load_all_countries_data") =>
        LET L == call.country_list
            expected == RowsInListOrder(L)
        IN  /\ ~raised
            /\ ret.kind = "DataFrame"
            /\ Len(ret.rows) = Len(expected)
            /\ \A k \in DOMAIN expected : RowKept(ret.rows[k], expected[k])
            /\ ret = EmptyDataFrame <=> \A i \in DOMAIN L : Empty(LoadOf(L[i]))
            /\ Empty(ret) <=> ret = EmptyDataFrame
            /\ (Len(L) = 3 /\ \A i \in DOMAIN L : ~Empty(LoadOf(L[i]))) =>
                  ret = concat(<<load_all_countries_data(
                                    {}, {}, opens, SubSeq(L, 1, 2)).value,
                                 LoadOf(L[3])>>)

\* C4 witness: a list of three with an empty load in the middle and rows of
\* two different countries around it.
C4_Witness ==
    /\ IsCall("load_all_countries_data") /\ Len(call.country_list) = 3
    /\ Empty(LoadOf(call.country_list[2]))
    /\ ~Empty(LoadOf(call.country_list[1]))
    /\ ~Empty(LoadOf(call.country_list[3]))
    /\ call.country_list[1] # call.country_list[3]
    /\ Len(ret.rows) >= 2

\* C4 witness of the last part: three different countries, none empty.
C4_WitnessThree ==
    /\ IsCall("load_all_countries_data")
    /\ call.country_list = <<"Togo", "Benin", "Sierra Leone">>
    /\ \A i \in 1..3 : ~Empty(LoadOf(call.country_list[i]))

\* The rows of df that count for the ranking: GHI strictly above 50.
Qualifying(df, c) ==
    {i \in DOMAIN df.rows :
        df.rows[i].cells["Country"] = c /\ df.rows[i].cells["GHI"] > 50}

RECURSIVE SumOfGhi(_, _)
SumOfGhi(df, S) ==
    IF S = {} THEN 0
    ELSE LET i == CHOOSE i \in S : TRUE
         IN  df.rows[i].cells["GHI"] + SumOfGhi(df, S \ {i})

Rankable(df) ==
    /\ ~Empty(df) /\ "GHI" \in df.columns
    /\ \E i \in DOMAIN df.rows : df.rows[i].cells["GHI"] > 50

Average(row) == row.cells[average_column]

\* C5: on a non-empty table with a GHI column and a row with GHI > 50, the
\* ranking has exactly one entry per entity with such a row, its value is the
\* mean of that entity's GHI values above 50 ([10, 60, 80] gives 70), the
\* entries are in descending order of mean, and the ranks are 1, 2, ...
C5_RankingByDaytimeMean ==
    (IsCall("create_ghi_ranking_table") /\ Rankable(df_combined)) =>
        LET df == df_combined
            entities == {c \in Countries : Qualifying(df, c) # {}}
        IN  /\ ~raised
            /\ ret.kind = "DataFrame"
            /\ ret.columns = {"Country", average_column}
            /\ Len(ret.rows) = Cardinality(entities)
            /\ {ret.rows[k].cells["Country"] : k \in DOMAIN ret.rows} = entities
            /\ \A k \in DOMAIN ret.rows :
                  LET c == ret.rows[k].cells["Country"]
                      m == Average(ret.rows[k])
                  IN  /\ m.den > 0
                      /\ m.num * Cardinality(Qualifying(df, c))
                            = m.den * SumOfGhi(df, Qualifying(df, c))
                      /\ ret.rows[k].index = k
                      /\ column_of_country(df.rows, c, "GHI") = <<10, 60, 80>>
                            => m = [num |-> 70, den |-> 1]
            /\ \A j, k \in DOMAIN ret.rows :
                  j < k => ~Less(Average(ret.rows[j]), Average(ret.rows[k]))

\* C5 witness: three entities ranked, the means not all equal, one of them
\* with a row at or below the threshold.
C5_Witness ==
    /\ IsCall("create_ghi_ranking_table") /\ Rankable(df_combined)
    /\ Len(ret.rows) = 3
    /\ Less(Average(ret.rows[3]), Average(ret.rows[1]))
    /\ \E i \in DOMAIN df_combined.rows :
          /\ df_combined.rows[i].cells["GHI"] = 10
          /\ Qualifying(df_combined, df_combined.rows[i].cells["Country"]) # {}

\* The position of an entity's first row in the table.
FirstRow(df, c) ==
    CHOOSE i \in DOMAIN df.rows :
        /\ df.rows[i].cells["Country"] = c
        /\ \A j \in 1..(i - 1) : df.rows[j].cells["Country"] # c

IsRanking(df) == df.kind = "DataFrame" /\ average_column \in df.columns

\* C6 as stated: two entities with the same mean GHI keep, in the ranking,
\* the order in which they appear in the combined table.  The statement is
\* taken on the builds most favourable to it, those whose sort leaves equal
\* keys in place.
C6_TiesKeepInputOrder ==
    ( /\ IsCall("create_ghi_ranking_table") /\ IsRanking(ret)
      /\ quicksort_ties \in {Unobserved, in_place} ) =>
        \A j, k \in DOMAIN ret.rows :
            (j < k /\ Average(ret.rows[j]) = Average(ret.rows[k])) =>
                FirstRow(df_combined, ret.rows[j].cells["Country"])
                    < FirstRow(df_combined, ret.rows[k].cells["Country"])

RECURSIVE RowsByEntity(_, _)
RowsByEntity(rows, order) ==
    IF order = <<>> THEN <<>>
    ELSE SelectSeq(rows, LAMBDA r : r.cells["Country"] = Head(order))
            \o RowsByEntity(rows, Tail(order))

Reverse(seq) == [i \in DOMAIN seq |-> seq[Len(seq) + 1 - i]]

\* The same table with its entities in the opposite order, each entity's
\* rows still in file order.
EntitiesReversed(df) ==
    DataFrame(df.columns, RowsByEntity(df.rows, Reverse(unique_countries(df.rows))))

\* The tie orders the build may still turn out to have.
PossibleTies ==
    IF quicksort_ties = Unobserved THEN Permutations3 ELSE {quicksort_ties}

\* C6 as amended: the order of two entities with the same mean GHI does not
\* depend on their order in the combined table (the same rows with the
\* entities in the opposite order give the same ranking), and a repeated run
\* on the same table gives the same ranking.
C6_TiesIndependentOfInputOrder ==
    (IsCall("create_ghi_ranking_table") /\ IsRanking(ret)) =>
        \A ties \in PossibleTies :
            /\ create_ghi_ranking_table(df_combined, ties).value = ret
            /\ create_ghi_ranking_table(EntitiesReversed(df_combined), ties).value
                  = ret

\* C6 witness: a ranking with two entities of the same mean, which entered
\* the combined table in an order other than that of their names.
C6_Witness ==
    /\ IsCall("create_ghi_ranking_table") /\ IsRanking(ret)
    /\ Len(ret.rows) >= 2
    /\ Average(ret.rows[1]) = Average(ret.rows[2])
    /\ unique_countries(df_combined.rows) # group_keys(df_combined.rows)

\* C7 as stated: ranking the empty table returns the "no data" marker and
\* does not raise.
C7_EmptyTableGivesNoDataMarker ==
    (IsCall("create_ghi_ranking_table") /\ Empty(df_combined)) =>
        (ret = no_daytime_message /\ ~raised)

\* C7 as amended: ranking the empty table returns the empty table, which is
\* not the "no data" marker, and does not raise.
C7_EmptyTableGivesEmptyResult ==
    (IsCall("create_ghi_ranking_table") /\ Empty(df_combined)) =>
        /\ ~raised
        /\ ret = EmptyDataFrame
        /\ Empty(ret)
        /\ ret # no_daytime_message

\* C7 witness: the ranking of the table of a load_all in which no entity
\* loaded.
C7_Witness ==
    /\ IsCall("create_ghi_ranking_table")
    /\ Empty(df_combined)
    /\ cache_all # {}
    /\ ret = EmptyDataFrame

\* C8: on a non-empty table with a GHI column but no row with GHI > 50, the
\* result carries exactly one "no data" entry; it is not empty and differs
\* from the result for the empty table.
C8_NoQualifyingRowsMessage ==
    ( /\ IsCall("create_ghi_ranking_table")
      /\ ~Empty(df_combined) /\ "GHI" \in df_combined.columns
      /\ ~Rankable(df_combined) ) =>
        /\ ~raised
        /\ ret.kind = "DataFrame"
        /\ ret.columns = {"Message"}
        /\ Len(ret.rows) = 1
        /\ ~Empty(ret)
        /\ \A ties \in Permutations3 :
              ret # create_ghi_ranking_table(EmptyDataFrame, ties).value

\* C8 witness: a table whose GHI values are 10, 50 and a missing one.
C8_Witness ==
    /\ IsCall("create_ghi_ranking_table")
    /\ ~Empty(df_combined) /\ "GHI" \in df_combined.columns
    /\ ~Rankable(df_combined)
    /\ \E i \in DOMAIN df_combined.rows : df_combined.rows[i].cells["GHI"] = 50
    /\ \E i \in DOMAIN df_combined.rows : df_combined.rows[i].cells["GHI"] = NaN
    /\ ret = no_daytime_message

\* The (entity, metric) pairs of a table, in row order.
PairsOfTable(df, metric) ==
    [i \in DOMAIN df.rows |->
        <<df.rows[i].cells["Country"], df.rows[i].cells[metric]>>]

\* The (entity, metric) pairs of a figure, trace after trace.
RECURSIVE PairsOfTraces(_)
PairsOfTraces(data) ==
    IF data = <<>> THEN <<>>
    ELSE [i \in DOMAIN Head(data).x |-> <<Head(data).x[i], Head(data).y[i]>>]
            \o PairsOfTraces(Tail(data))

NothingToPlot(df, metric) == Empty(df) \/ metric \notin df.columns

\* C9 as stated: absent, without raising, for an empty table or a metric
\* that is no column; otherwise the (entity, metric) pairs of the table, in
\* original order, no value altered.
C9_PairsInOriginalOrder ==
    IsCall("create_comparison_boxplot") =>
        /\ ~raised
        /\ NothingToPlot(df_combined, call.metric) => ret = NoneRet
        /\ ~NothingToPlot(df_combined, call.metric) =>
              /\ ret.kind = "Figure"
              /\ PairsOfTraces(ret.data) = PairsOfTable(df_combined, call.metric)

\* Each entity's rows are next to each other in the table.
Contiguous(df) ==
    \A i, j, k \in DOMAIN df.rows :
        (i < j /\ j < k /\ df.rows[i].cells["Country"] = df.rows[k].cells["Country"])
            => df.rows[j].cells["Country"] = df.rows[i].cells["Country"]

\* C9 as amended: absent, without raising, for an empty table or a metric
\* that is no column; otherwise a figure with one trace per entity, the
\* entities in order of first appearance, each trace holding exactly that
\* entity's (entity, metric) pairs in original order with no value altered.
\* The pairs as a whole are in original order when each entity's rows are
\* contiguous in the table.
C9_PairsGroupedByEntity ==
    IsCall("create_comparison_boxplot") =>
        /\ ~raised
        /\ NothingToPlot(df_combined, call.metric) => ret = NoneRet
        /\ ~NothingToPlot(df_combined, call.metric) =>
              LET df == df_combined
                  names == {df.rows[i].cells["Country"] : i \in DOMAIN df.rows}
              IN  /\ ret.kind = "Figure"
                  /\ Len(ret.data) = Cardinality(names)
                  /\ \A t \in DOMAIN ret.data :
                        LET own == SelectSeq(df.rows,
                                     LAMBDA r : r.cells["Country"] = ret.data[t].name)
                        IN  /\ ret.data[t].name \in names
                            /\ \A u \in DOMAIN ret.data :
                                  t < u => FirstRow(df, ret.data[t].name)
                                              < FirstRow(df, ret.data[u].name)
                            /\ ret.data[t].x = [i \in DOMAIN own |-> ret.data[t].name]
                            /\ ret.data[t].y
                                  = [i \in DOMAIN own |-> own[i].cells[call.metric]]
                  /\ Contiguous(df) =>
                        PairsOfTraces(ret.data) = PairsOfTable(df, call.metric)

\* C9 witness: the figure of a table with two entities and several rows.
C9_Witness ==
    /\ IsCall("create_comparison_boxplot")
    /\ ret.kind = "Figure"
    /\ Len(ret.data) = 2
    /\ Len(ret.data[1].y) >= 3
    /\ Contiguous(df_combined)

\* C9 witness of the absent case: DNI asked of a table without DNI.
C9_WitnessAbsent ==
    /\ IsCall("create_comparison_boxplot") /\ call.metric = "DNI"
    /\ ~Empty(df_combined) /\ "DNI" \notin df_combined.columns
    /\ ret = NoneRet

====
